---------------------------- MODULE Spec2Model ----------------------------
(***************************************************************************)
(* Model of scripts/assign_counties.py: the TopoJSON decoder               *)
(* (decode_arc, decode_ring, topojson_to_geojson_features) and main(): the *)
(* build of the county geometries, the STRtree index, the per-point        *)
(* assignment loop with its 0.01 tolerance, and the density histogram.     *)
(*                                                                         *)
(* Coordinates are integers.  In the assignment model one grid unit is     *)
(* 0.005 coordinate units, so the tolerance 0.01 is 2 grid units.          *)
(* Distances are kept exact as squared rationals <<num, den>>.             *)
(* A python list is a sequence; python index k is position k+1.            *)
(*                                                                         *)
(* Model of scripts/geocode_pharmacies.py as well: the retry loop of       *)
(* geocode_batch, the resume cache and the batching of main(), and the     *)
(* loop that builds the points and details lists.                          *)
(***************************************************************************)
EXTENDS Integers, Sequences, FiniteSets, TLC

VARIABLES
    pc,               \* position of main(): "decode", "build", "index", "assign", "report", "done", "aborted"
    exc,              \* the uncaught exception that ended the run ("" when none):
                      \* "IndexError_arcs" (line 49), "IndexError_idx0" (line 152),
                      \* "ValueError_max" (line 174)
    topo,             \* the topology document (load_county_topojson)
    points,           \* the point list [lon, lat, status] (json.load, line 110)
    county_features,  \* result of topojson_to_geojson_features
    fi,               \* number of features the build loop has visited
    county_shapes,    \* valid shapely geometries, in order
    county_fips_list, \* their zero-padded identifiers, index-aligned
    tree,             \* the STRtree: the order in which it reports tied geometries
    i,                \* number of points whose loop body has completed
    idx,              \* the candidate index of the last query (0 before any)
    density,          \* fips -> [total, c0, c1, c2, c3]
    assigned,
    unassigned,
    stats,            \* <<max per county, median per county>> once reported
    call,             \* decoder harness: the call made, [fn, arg]
    ret,              \* decoder harness: what the call returned
    pharmacies,       \* geocoder: the rows of the CSV (read_pharmacies)
    zip_centroids,    \* geocoder: zip5 -> [lon, lat] (load_zip_centroids)
    all_results,      \* geocoder: npi -> [lon, lat] or None
    cache_file,       \* geocoder: what geocode_cache.json holds
    batches,          \* geocoder: the slices of remaining (line 182)
    attempt,          \* geocoder: loop variable of line 120
    posts,            \* geocoder: POST requests sent for the current batch
    parsed,           \* geocoder: lines 134-157 ran for the current batch
    results,          \* geocoder: what geocode_batch returned
    pj,               \* geocoder: rows the output loop has visited
    details,          \* geocoder: the details list (line 208)
    fallback_count,
    skip_count

vars == <<pc, exc, topo, points, county_features, fi, county_shapes,
          county_fips_list, tree, i, idx, density, assigned, unassigned,
          stats, call, ret, pharmacies, zip_centroids, all_results, cache_file,
          batches, attempt, posts, parsed, results, pj, details,
          fallback_count, skip_count>>

geoVars == <<pharmacies, zip_centroids, all_results, cache_file, batches,
             attempt, posts, parsed, results, pj, details, fallback_count,
             skip_count>>

mainVars == <<pc, exc, points, county_features, fi, county_shapes,
              county_fips_list, tree, i, idx, density, assigned, unassigned,
              stats, geoVars>>

\* the geocoder's variables while another program is modelled
GeoIdle ==
    /\ pharmacies = <<>>
    /\ zip_centroids = <<>>
    /\ all_results = <<>>
    /\ cache_file = <<>>
    /\ batches = <<>>
    /\ attempt = 0
    /\ posts = 0
    /\ parsed = FALSE
    /\ results = <<>>
    /\ pj = 0
    /\ details = <<>>
    /\ fallback_count = 0
    /\ skip_count = 0

-----------------------------------------------------------------------------
(* Bounds of the model *)

MaxPoints == 2      \* longest point list
MaxArcs == 2        \* largest generated arc table
MaxArcLen == 3      \* longest generated arc
MaxRingArcs == 2    \* longest generated ring (list of arc references)
MaxCounties == 3    \* most counties of a generated histogram
MaxTotal == 3       \* largest county total of a generated histogram
MaxPharmacies == 3  \* longest list of CSV rows
BATCH_SIZE == 2     \* rows per batch; 8000 in the program (line 23)

-----------------------------------------------------------------------------
(* Sequence helpers *)

Reverse(s) == [k \in 1..Len(s) |-> s[Len(s) + 1 - k]]

Rest(s) == IF Len(s) = 0 THEN s ELSE Tail(s)     \* python s[1:]

RECURSIVE SumSeq(_)
SumSeq(s) == IF Len(s) = 0 THEN 0 ELSE Head(s) + SumSeq(Tail(s))

-----------------------------------------------------------------------------
(* decode_arc / decode_ring  (assign_counties.py lines 45-77)              *)
(* A call either returns coordinates (ok) or raises IndexError (~ok).      *)

Raised == [ok |-> FALSE, coords |-> <<>>]
Returned(c) == [ok |-> TRUE, coords |-> c]

\* the running sum of the first k deltas, lines 56-59
RECURSIVE RunningSum(_, _)
RunningSum(coords, k) ==
    IF k = 0 THEN <<0, 0>>
    ELSE LET p == RunningSum(coords, k - 1)
         IN  <<p[1] + coords[k][1], p[2] + coords[k][2]>>

\* mutant: the transform is applied to each delta, not to the running sum
DeltaDecode_perDelta(coords, transform) ==
    [k \in 1..Len(coords) |->
        <<coords[k][1] * transform.scale[1] + transform.translate[1],
          coords[k][2] * transform.scale[2] + transform.translate[2]>>]

\* mutant: the running sum is taken whether or not a transform exists
DeltaDecode_alwaysSum(coords, transform) ==
    [k \in 1..Len(coords) |->
        LET p == RunningSum(coords, k)
        IN  <<p[1] * transform.scale[1] + transform.translate[1],
              p[2] * transform.scale[2] + transform.translate[2]>>]

\* lines 52-62: delta decoding when a transform exists, else a copy
DeltaDecode(coords, transform) ==
    IF transform.present
    THEN [k \in 1..Len(coords) |->
            LET p == RunningSum(coords, k)
            IN  <<p[1] * transform.scale[1] + transform.translate[1],
                  p[2] * transform.scale[2] + transform.translate[2]>>]
    ELSE coords

\* mutant: the raw pairs are reversed before they are decoded
DecodeArc_reverseRaw(arcs, transform, arc_index) ==
    LET reverse == arc_index < 0
        ix == IF reverse THEN (-arc_index) - 1 ELSE arc_index
    IN  IF ix >= Len(arcs) THEN Raised
        ELSE Returned(DeltaDecode(IF reverse THEN Reverse(arcs[ix + 1])
                                             ELSE arcs[ix + 1], transform))

\* mutant: an index past the end of the table wraps around to another arc
DecodeArc_wrap(arcs, transform, arc_index) ==
    LET reverse == arc_index < 0
        ix == IF reverse THEN (-arc_index) - 1 ELSE arc_index
    IN  IF Len(arcs) = 0 THEN Raised
        ELSE LET decoded == DeltaDecode(arcs[(ix % Len(arcs)) + 1], transform)
             IN  Returned(IF reverse THEN Reverse(decoded) ELSE decoded)

\* lines 45-66.  ~n is -n-1; arcs[ix] raises IndexError when ix >= len(arcs)
DecodeArc(arcs, transform, arc_index) ==
    LET reverse == arc_index < 0
        ix == IF reverse THEN (-arc_index) - 1 ELSE arc_index
    IN  IF ix >= Len(arcs) THEN Raised
        ELSE LET decoded == DeltaDecode(arcs[ix + 1], transform)
             IN  Returned(IF reverse THEN Reverse(decoded) ELSE decoded)

\* mutant: no arc loses its leading coordinate
RECURSIVE DecodeRingFrom_keepAll(_, _, _, _)
DecodeRingFrom_keepAll(arcs, transform, arc_indices, coords) ==
    IF Len(arc_indices) = 0 THEN Returned(coords)
    ELSE LET a == DecodeArc(arcs, transform, Head(arc_indices))
         IN  IF ~a.ok THEN Raised
             ELSE DecodeRingFrom_keepAll(arcs, transform, Tail(arc_indices),
                                         coords \o a.coords)

\* lines 70-77: the loop of decode_ring, coords being the list built so far
RECURSIVE DecodeRingFrom(_, _, _, _)
DecodeRingFrom(arcs, transform, arc_indices, coords) ==
    IF Len(arc_indices) = 0 THEN Returned(coords)
    ELSE LET a == DecodeArc(arcs, transform, Head(arc_indices))
         IN  IF ~a.ok THEN Raised
             ELSE DecodeRingFrom(arcs, transform, Tail(arc_indices),
                    coords \o (IF Len(coords) > 0 THEN Rest(a.coords)
                                                  ELSE a.coords))

\* lines 68-77
DecodeRing(arcs, transform, arc_indices) ==
    DecodeRingFrom(arcs, transform, arc_indices, <<>>)

\* mutant: without a transform the arc of the table itself is reversed
ArcsAfterDecodeArc_inPlace(arcs, transform, arc_index) ==
    LET ix == IF arc_index < 0 THEN (-arc_index) - 1 ELSE arc_index
    IN  IF arc_index < 0 /\ ~transform.present /\ ix < Len(arcs)
        THEN [arcs EXCEPT ![ix + 1] = Reverse(@)]
        ELSE arcs

\* lines 49-65: the arc table as decode_arc leaves it.  Line 49 binds coords
\* to the list held by the table; the result is a new list (line 52) or a
\* copy (line 62), and line 65 reverses that list, not the table's
ArcsAfterDecodeArc(arcs, transform, arc_index) == arcs

\* lines 70-77: the arc table as decode_ring leaves it; line 75 slices a new
\* list and line 76 extends the ring's own list
RECURSIVE ArcsAfterDecodeRing(_, _, _)
ArcsAfterDecodeRing(arcs, transform, arc_indices) ==
    IF Len(arc_indices) = 0 THEN arcs
    ELSE IF ~DecodeArc(arcs, transform, Head(arc_indices)).ok THEN arcs
    ELSE ArcsAfterDecodeRing(ArcsAfterDecodeArc(arcs, transform, Head(arc_indices)),
                             transform, Tail(arc_indices))


-----------------------------------------------------------------------------
(* topojson_to_geojson_features  (lines 39-103)                            *)
(* A geometry is [type, id, hasArcs, arcs]; id is [has, text], text being  *)
(* the identifier's characters.  The properties bag is not read by main()  *)
(* and is left out.                                                        *)

\* mutant: the rings of a polygon are assembled last entry first
DecodeRings_lastFirst(arcs, transform, ring_list) ==
    LET rs == [k \in 1..Len(ring_list) |->
                 DecodeRing(arcs, transform, ring_list[Len(ring_list) + 1 - k])]
    IN  IF \E k \in 1..Len(ring_list) : ~rs[k].ok THEN Raised
        ELSE Returned([k \in 1..Len(ring_list) |-> rs[k].coords])

\* line 85 / line 90: [decode_ring(ring) for ring in ...]
DecodeRings(arcs, transform, ring_list) ==
    LET rs == [k \in 1..Len(ring_list) |-> DecodeRing(arcs, transform, ring_list[k])]
    IN  IF \E k \in 1..Len(ring_list) : ~rs[k].ok THEN Raised
        ELSE Returned([k \in 1..Len(ring_list) |-> rs[k].coords])

\* lines 88-91
DecodePolygons(arcs, transform, polygon_list) ==
    LET ps == [k \in 1..Len(polygon_list) |-> DecodeRings(arcs, transform, polygon_list[k])]
    IN  IF \E k \in 1..Len(polygon_list) : ~ps[k].ok THEN Raised
        ELSE Returned([k \in 1..Len(polygon_list) |-> ps[k].coords])

\* line 82: geom.get("arcs", [])
ArcsData(geom) == IF geom.hasArcs THEN geom.arcs ELSE <<>>

\* lines 84-101: one pass of the loop body; "skip" is the continue of line 94
DecodeGeometry(arcs, transform, geom) ==
    IF geom.type = "Polygon"
    THEN LET r == DecodeRings(arcs, transform, ArcsData(geom))
         IN  IF ~r.ok THEN [out |-> "raise"]
             ELSE [out |-> "feature",
                   feature |-> [id |-> geom.id,
                                geometry |-> [type |-> "Polygon", coordinates |-> r.coords]]]
    ELSE IF geom.type = "MultiPolygon"
    THEN LET r == DecodePolygons(arcs, transform, ArcsData(geom))
         IN  IF ~r.ok THEN [out |-> "raise"]
             ELSE [out |-> "feature",
                   feature |-> [id |-> geom.id,
                                geometry |-> [type |-> "MultiPolygon", coordinates |-> r.coords]]]
    ELSE [out |-> "skip"]

\* lines 79-103: the loop over obj["geometries"], features being the list so far
RECURSIVE FeaturesFrom(_, _, _, _)
FeaturesFrom(arcs, transform, geometries, features) ==
    IF Len(geometries) = 0 THEN [ok |-> TRUE, features |-> features]
    ELSE LET g == DecodeGeometry(arcs, transform, Head(geometries))
         IN  IF g.out = "raise" THEN [ok |-> FALSE, features |-> <<>>]
             ELSE FeaturesFrom(arcs, transform, Tail(geometries),
                               IF g.out = "feature" THEN Append(features, g.feature)
                                                    ELSE features)

\* lines 39-103
TopojsonToGeojsonFeatures(t) ==
    FeaturesFrom(t.arcs, t.transform, t.geometries, <<>>)

-----------------------------------------------------------------------------
(* The shapely calls of main(): shape(), is_valid, contains(), distance().  *)
(* A shape is [type, polys]: polys is a sequence of polygons, a polygon is  *)
(* a sequence of closed rings (shell first, then holes).  An empty shape    *)
(* has no polygon.                                                          *)

Min2(a, b) == IF a < b THEN a ELSE b
Max2(a, b) == IF a < b THEN b ELSE a

\* twice the signed area of triangle a, b, p
Cross(a, b, p) == (b[1] - a[1]) * (p[2] - a[2]) - (b[2] - a[2]) * (p[1] - a[1])

OnSegment(p, a, b) ==
    /\ Cross(a, b, p) = 0
    /\ Min2(a[1], b[1]) <= p[1] /\ p[1] <= Max2(a[1], b[1])
    /\ Min2(a[2], b[2]) <= p[2] /\ p[2] <= Max2(a[2], b[2])

SegmentsIntersect(a, b, c, d) ==
    \/ /\ Cross(c, d, a) * Cross(c, d, b) < 0
       /\ Cross(a, b, c) * Cross(a, b, d) < 0
    \/ OnSegment(a, c, d) \/ OnSegment(b, c, d)
    \/ OnSegment(c, a, b) \/ OnSegment(d, a, b)

EdgesOf(ring) == 1..(Len(ring) - 1)

OnRing(p, ring) == \E k \in EdgesOf(ring) : OnSegment(p, ring[k], ring[k + 1])

\* the ray from p towards +x crosses edge a-b
RayCrosses(p, a, b) ==
    /\ (a[2] > p[2]) # (b[2] > p[2])
    /\ IF b[2] > a[2]
       THEN (p[1] - a[1]) * (b[2] - a[2]) < (p[2] - a[2]) * (b[1] - a[1])
       ELSE (p[1] - a[1]) * (b[2] - a[2]) > (p[2] - a[2]) * (b[1] - a[1])

\* ray casting; meaningful for p not on the ring
InsideRing(p, ring) ==
    Cardinality({k \in EdgesOf(ring) : RayCrosses(p, ring[k], ring[k + 1])}) % 2 = 1

\* p is in the interior of the polygon: inside the shell, in or on no hole
PolygonContains(poly, p) ==
    /\ ~OnRing(p, poly[1]) /\ InsideRing(p, poly[1])
    /\ \A h \in 2..Len(poly) : ~OnRing(p, poly[h]) /\ ~InsideRing(p, poly[h])

\* p is in the interior or on the boundary of the polygon
PolygonCovers(poly, p) ==
    /\ OnRing(p, poly[1]) \/ InsideRing(p, poly[1])
    /\ \A h \in 2..Len(poly) : OnRing(p, poly[h]) \/ ~InsideRing(p, poly[h])

\* county_geom.contains(pt), line 156
Contains(shp, p) == \E k \in 1..Len(shp.polys) : PolygonContains(shp.polys[k], p)

\* squared distance from p to segment a-b, as <<num, den>>
SegDist2(p, a, b) ==
    LET len2 == (b[1] - a[1]) * (b[1] - a[1]) + (b[2] - a[2]) * (b[2] - a[2])
        dot  == (p[1] - a[1]) * (b[1] - a[1]) + (p[2] - a[2]) * (b[2] - a[2])
        pa2  == (p[1] - a[1]) * (p[1] - a[1]) + (p[2] - a[2]) * (p[2] - a[2])
        pb2  == (p[1] - b[1]) * (p[1] - b[1]) + (p[2] - b[2]) * (p[2] - b[2])
    IN  IF len2 = 0 \/ dot <= 0 THEN <<pa2, 1>>
        ELSE IF dot >= len2 THEN <<pb2, 1>>
        ELSE <<Cross(a, b, p) * Cross(a, b, p), len2>>

RLess(q, r) == q[1] * r[2] < r[1] * q[2]

RMin(S) == CHOOSE q \in S : \A r \in S : ~RLess(r, q)

\* squared distances from p to every edge of every ring of the shape
EdgeDistances(shp, p) ==
    UNION {UNION {{SegDist2(p, shp.polys[k][r][e], shp.polys[k][r][e + 1]) :
                      e \in EdgesOf(shp.polys[k][r])} :
                  r \in 1..Len(shp.polys[k])} :
           k \in 1..Len(shp.polys)}

\* county_geom.distance(pt) squared, for a shape that is not empty
Distance2(shp, p) ==
    IF \E k \in 1..Len(shp.polys) : PolygonCovers(shp.polys[k], p) THEN <<0, 1>>
    ELSE RMin(EdgeDistances(shp, p))

\* the tolerance of line 156, 0.01, in grid units of 0.005
Tolerance == 2

\* mutant: a point at exactly the tolerance is accepted
WithinTolerance_inclusive(d2) == d2[1] <= Tolerance * Tolerance * d2[2]

\* county_geom.distance(pt) < 0.01, line 156
WithinTolerance(d2) == d2[1] < Tolerance * Tolerance * d2[2]

\* shapely closes a ring whose last coordinate differs from its first
CloseRing(ring) ==
    IF Len(ring) > 0 /\ ring[1] # ring[Len(ring)] THEN Append(ring, ring[1]) ELSE ring

\* the coordinates hold no coordinate at all (shape() then gives an empty geometry)
CoordinatesEmpty(geometry) ==
    IF geometry.type = "Polygon"
    THEN \A r \in 1..Len(geometry.coordinates) : Len(geometry.coordinates[r]) = 0
    ELSE \A k \in 1..Len(geometry.coordinates) :
            \A r \in 1..Len(geometry.coordinates[k]) :
                Len(geometry.coordinates[k][r]) = 0

PolygonsOf(geometry) ==
    IF geometry.type = "Polygon" THEN <<geometry.coordinates>> ELSE geometry.coordinates

\* shape(feat["geometry"]), line 125: raises for a polygon without rings or a
\* ring that has fewer than 4 coordinates once closed
Shape(geometry) ==
    IF CoordinatesEmpty(geometry) THEN [ok |-> TRUE, type |-> geometry.type, polys |-> <<>>]
    ELSE LET ps == PolygonsOf(geometry)
         IN  IF \E k \in 1..Len(ps) :
                    \/ Len(ps[k]) = 0
                    \/ \E r \in 1..Len(ps[k]) : Len(CloseRing(ps[k][r])) < 4
             THEN [ok |-> FALSE, type |-> geometry.type, polys |-> <<>>]
             ELSE [ok |-> TRUE, type |-> geometry.type,
                   polys |-> [k \in 1..Len(ps) |->
                                [r \in 1..Len(ps[k]) |-> CloseRing(ps[k][r])]]]

RECURSIVE Area2From(_, _)
Area2From(ring, k) ==
    IF k >= Len(ring) THEN 0
    ELSE ring[k][1] * ring[k + 1][2] - ring[k + 1][1] * ring[k][2] + Area2From(ring, k + 1)

\* a closed ring that has area and neither crosses nor touches itself
RingValid(ring) ==
    LET n == Len(ring) - 1
    IN  /\ Area2From(ring, 1) # 0
        /\ \A j, k \in 1..n :
              (j + 1 < k /\ ~(j = 1 /\ k = n)) =>
                  ~SegmentsIntersect(ring[j], ring[j + 1], ring[k], ring[k + 1])
        /\ \A j \in 1..n :
              LET a == ring[j]
                  b == ring[j + 1]
                  c == ring[IF j = n THEN 2 ELSE j + 2]
              IN  ~OnSegment(c, a, b) /\ ~OnSegment(a, b, c)

PolygonValid(poly) ==
    /\ \A r \in 1..Len(poly) : RingValid(poly[r])
    /\ \A h \in 2..Len(poly) : \A v \in 1..Len(poly[h]) :
          OnRing(poly[h][v], poly[1]) \/ InsideRing(poly[h][v], poly[1])

\* geom.is_valid, line 126
IsValid(shp) ==
    /\ \A k \in 1..Len(shp.polys) : PolygonValid(shp.polys[k])
    /\ \A j, k \in 1..Len(shp.polys) :
          j # k => \A v \in 1..Len(shp.polys[j][1]) :
                      ~PolygonContains(shp.polys[k], shp.polys[j][1][v])

\* str(feat["id"]): the identifier's text, "None" for a missing one
Str(id) == IF id.has THEN id.text ELSE <<"N", "o", "n", "e">>

\* mutant: the text is cut to its last 5 characters after padding
Zfill_truncating(s, width) ==
    LET padded == [k \in 1..Max2(width, Len(s)) |->
                     IF k <= Max2(width, Len(s)) - Len(s) THEN "0"
                     ELSE s[k - (Max2(width, Len(s)) - Len(s))]]
    IN  SubSeq(padded, Len(padded) - width + 1, Len(padded))

\* str.zfill(width): left-pads with "0" up to width, never shortens
\* (a leading sign is kept in front; identifiers here carry none)
Zfill(s, width) ==
    IF Len(s) >= width THEN s
    ELSE [k \in 1..width |-> IF k <= width - Len(s) THEN "0" ELSE s[k - (width - Len(s))]]

\* the indices query_nearest reports: the geometries at the least distance,
\* empty geometries being left out of the tree
NearestSet(shapes, p) ==
    LET live == {k \in 1..Len(shapes) : Len(shapes[k].polys) > 0}
        d == [k \in live |-> Distance2(shapes[k], p)]
    IN  {k \in live : \A j \in live : ~RLess(d[j], d[k])}

\* mutant: the order among equidistant geometries follows the running count
\* of assigned points
QueryNearestFirst_byLoad(shapes, order, p) ==
    LET near == NearestSet(shapes, p)
        hits == {m \in 1..Len(order) : order[m] \in near}
    IN  IF near = {} THEN 0
        ELSE IF assigned % 2 = 0
             THEN order[CHOOSE m \in hits : \A l \in hits : m <= l]
             ELSE order[CHOOSE m \in hits : \A l \in hits : m >= l]

\* mutant: the first geometry of the tree is reported, whatever its distance
QueryNearestFirst_firstInTree(shapes, order, p) ==
    IF NearestSet(shapes, p) = {} THEN 0 ELSE order[1]

\* lines 150-152: idx[0], the first reported index; 0 stands for the
\* IndexError of indexing an empty result
QueryNearestFirst(shapes, order, p) ==
    LET near == NearestSet(shapes, p)
    IN  IF near = {} THEN 0
        ELSE order[CHOOSE m \in 1..Len(order) :
                      /\ order[m] \in near
                      /\ \A l \in 1..(m - 1) : order[l] \notin near]

-----------------------------------------------------------------------------
(* The histogram of main()  (lines 156-175) *)

\* mutant: the candidate of the index is trusted without the test of line 156
Accepts_always(shp, p) == TRUE


\* line 156: the candidate is accepted
Accepts(shp, p) == Contains(shp, p) \/ WithinTolerance(Distance2(shp, p))

\* mutant: the bucket of status s is taken one position too low
Aggregate_offByOne(dens, fips, status) ==
    LET d0 == [f \in (DOMAIN dens) \cup {fips} |->
                 IF f \in DOMAIN dens THEN dens[f] ELSE <<0, 0, 0, 0, 0>>]
        r1 == [d0[fips] EXCEPT ![1] = @ + 1]
        r2 == IF 0 <= status /\ status <= 3
              THEN [r1 EXCEPT ![status + 1] = @ + 1] ELSE r1
    IN  [d0 EXCEPT ![fips] = r2]

\* mutant: the range check lets status -1 through, which python indexes at 0
Aggregate_lowBound(dens, fips, status) ==
    LET d0 == [f \in (DOMAIN dens) \cup {fips} |->
                 IF f \in DOMAIN dens THEN dens[f] ELSE <<0, 0, 0, 0, 0>>]
        r1 == [d0[fips] EXCEPT ![1] = @ + 1]
        r2 == IF -1 <= status /\ status <= 3
              THEN [r1 EXCEPT ![status + 2] = @ + 1] ELSE r1
    IN  [d0 EXCEPT ![fips] = r2]

\* mutant: the status bucket is counted only for the point that creates the
\* record
Aggregate_firstOnly(dens, fips, status) ==
    LET d0 == [f \in (DOMAIN dens) \cup {fips} |->
                 IF f \in DOMAIN dens THEN dens[f] ELSE <<0, 0, 0, 0, 0>>]
        r1 == [d0[fips] EXCEPT ![1] = @ + 1]
        r2 == IF 0 <= status /\ status <= 3 /\ fips \notin DOMAIN dens
              THEN [r1 EXCEPT ![status + 2] = @ + 1] ELSE r1
    IN  [d0 EXCEPT ![fips] = r2]

\* mutant: the record is set to zeros at every assignment, not only the first
Aggregate_resetRecord(dens, fips, status) ==
    LET d0 == [f \in (DOMAIN dens) \cup {fips} |->
                 IF f \in DOMAIN dens /\ f # fips THEN dens[f] ELSE <<0, 0, 0, 0, 0>>]
        r1 == [d0[fips] EXCEPT ![1] = @ + 1]
        r2 == IF 0 <= status /\ status <= 3
              THEN [r1 EXCEPT ![status + 2] = @ + 1] ELSE r1
    IN  [d0 EXCEPT ![fips] = r2]

\* lines 158-162: python position k of the vector is position k+1 here
Aggregate(dens, fips, status) ==
    LET d0 == [f \in (DOMAIN dens) \cup {fips} |->
                 IF f \in DOMAIN dens THEN dens[f] ELSE <<0, 0, 0, 0, 0>>]
        r1 == [d0[fips] EXCEPT ![1] = @ + 1]
        r2 == IF 0 <= status /\ status <= 3
              THEN [r1 EXCEPT ![status + 2] = @ + 1] ELSE r1
    IN  [d0 EXCEPT ![fips] = r2]

\* mutant: the identifier is always read at the first position
FipsAt_first(fips_list, k) == fips_list[1]

\* line 157: county_fips_list[idx]
FipsAt(fips_list, k) == fips_list[k]

\* mutant: a rejected point is not counted
Resolve_dropUnassigned(accepted, dens, nAssigned, nUnassigned, fips, status) ==
    IF accepted
    THEN [density |-> Aggregate(dens, fips, status),
          assigned |-> nAssigned + 1, unassigned |-> nUnassigned]
    ELSE [density |-> dens, assigned |-> nAssigned, unassigned |-> nUnassigned]

\* mutant: the record of the candidate is created before the acceptance test
Resolve_createsRecord(accepted, dens, nAssigned, nUnassigned, fips, status) ==
    IF accepted
    THEN [density |-> Aggregate(dens, fips, status),
          assigned |-> nAssigned + 1, unassigned |-> nUnassigned]
    ELSE [density |-> [f \in (DOMAIN dens) \cup {fips} |->
                         IF f \in DOMAIN dens THEN dens[f] ELSE <<0, 0, 0, 0, 0>>],
          assigned |-> nAssigned, unassigned |-> nUnassigned + 1]

\* lines 156-165: what one point does to the histogram and the two counters
Resolve(accepted, dens, nAssigned, nUnassigned, fips, status) ==
    IF accepted
    THEN [density |-> Aggregate(dens, fips, status),
          assigned |-> nAssigned + 1, unassigned |-> nUnassigned]
    ELSE [density |-> dens, assigned |-> nAssigned, unassigned |-> nUnassigned + 1]

\* lines 148-157: the candidate of a point and the outcome of the test of
\* line 156; raised stands for the IndexError of line 152
Hit(shapes, fips_list, order, point) ==
    LET pt == <<point[1], point[2]>>
        k  == QueryNearestFirst(shapes, order, pt)
    IN  IF k = 0
        THEN [raised |-> TRUE, accepted |-> FALSE, fips |-> <<>>, status |-> point[3]]
        ELSE [raised |-> FALSE, accepted |-> Accepts(shapes[k], pt),
              fips |-> FipsAt(fips_list, k), status |-> point[3]]

\* lines 156-165 over the candidates of a list of points, from the histogram
\* and the counters in acc
RECURSIVE FoldHits(_, _)
FoldHits(hits, acc) ==
    IF hits = <<>> \/ acc.raised THEN acc
    ELSE IF hits[1].raised THEN [acc EXCEPT !.raised = TRUE]
    ELSE LET r == Resolve(hits[1].accepted, acc.density, acc.assigned,
                          acc.unassigned, hits[1].fips, hits[1].status)
         IN  FoldHits(Rest(hits),
                      [density |-> r.density, assigned |-> r.assigned,
                       unassigned |-> r.unassigned, raised |-> FALSE])

\* lines 144-165: the loop over a list of points
RunLoopFrom(shapes, fips_list, order, pts, acc) ==
    FoldHits([k \in 1..Len(pts) |-> Hit(shapes, fips_list, order, pts[k])], acc)

\* lines 140-165: the loop started from an empty histogram and zero counters
RunLoop(shapes, fips_list, order, pts) ==
    RunLoopFrom(shapes, fips_list, order, pts,
                [density |-> <<>>, assigned |-> 0, unassigned |-> 0, raised |-> FALSE])

\* sorted(totals), line 175
RECURSIVE SortedTotals(_, _)
SortedTotals(dens, keys) ==
    IF keys = {} THEN <<>>
    ELSE LET k == CHOOSE k \in keys : \A j \in keys : dens[k][1] <= dens[j][1]
         IN  <<dens[k][1]>> \o SortedTotals(dens, keys \ {k})

\* lines 173-175: max(totals) and sorted(totals)[len(totals) // 2]
Stats(dens) ==
    LET st == SortedTotals(dens, DOMAIN dens)
    IN  <<st[Len(st)], st[(Len(st) \div 2) + 1]>>

\* lines 111, 117, 131, 168-170, 174-175: the counts the run has printed when
\* it ends (max and median only when line 174 did not raise)
PrintedCounts ==
    {Len(points), Len(county_features), Len(county_shapes),
     assigned, unassigned, Cardinality(DOMAIN density)}
       \cup (IF pc = "done" THEN {stats[1], stats[2]} ELSE {})


-----------------------------------------------------------------------------
(* Inputs: topology documents and point lists *)

NoTransform == [present |-> FALSE, scale |-> <<1, 1>>, translate |-> <<0, 0>>]
Transform(sc, tl) == [present |-> TRUE, scale |-> sc, translate |-> tl]

Id(text) == [has |-> TRUE, text |-> text]
NoId == [has |-> FALSE, text |-> <<>>]

Geom(type, id, arcs) == [type |-> type, id |-> id, hasArcs |-> TRUE, arcs |-> arcs]
GeomNoArcs(type, id) == [type |-> type, id |-> id, hasArcs |-> FALSE, arcs |-> <<>>]

\* two squares [0,4]x[0,4] and [4,8]x[0,4] that share arc 0, absolute coordinates
TopoAdjacent ==
    [arcs |-> << <<<<4, 0>>, <<4, 4>>>>,
                 <<<<4, 4>>, <<0, 4>>, <<0, 0>>, <<4, 0>>>>,
                 <<<<4, 0>>, <<8, 0>>, <<8, 4>>, <<4, 4>>>> >>,
     transform |-> NoTransform,
     geometries |-> << Geom("Polygon", Id(<<"1", "0", "0", "1">>), << <<0, 1>> >>),
                       Geom("Polygon", Id(<<"0", "1", "0", "0", "3">>), << <<2, -1>> >>) >>]

\* delta-encoded: a square [1,9]x[1,9] with the hole [3,7]x[3,7], and a
\* MultiPolygon of the squares [13,15]x[1,3] and [13,15]x[7,9], between three
\* geometries of other types
TopoHole ==
    [arcs |-> << <<<<0, 0>>, <<4, 0>>, <<0, 4>>, <<-4, 0>>, <<0, -4>>>>,
                 <<<<1, 1>>, <<0, 2>>, <<2, 0>>, <<0, -2>>, <<-2, 0>>>>,
                 <<<<6, 0>>, <<1, 0>>, <<0, 1>>, <<-1, 0>>, <<0, -1>>>>,
                 <<<<6, 3>>, <<1, 0>>, <<0, 1>>, <<-1, 0>>, <<0, -1>>>> >>,
     transform |-> Transform(<<2, 2>>, <<1, 1>>),
     geometries |-> << Geom("LineString", Id(<<"2", "1", "1", "1", "5">>), <<0>>),
                       Geom("Polygon", Id(<<"2", "1", "1", "1", "1">>), << <<0>>, <<1>> >>),
                       GeomNoArcs("Point", NoId),
                       Geom("MultiPolygon", Id(<<"2", "1", "1", "1", "3">>),
                            << << <<2>> >>, << <<3>> >> >>),
                       Geom("MultiLineString", Id(<<"2", "1", "1", "1", "7">>), << <<1>> >>) >>]

\* a geometry of another type, a triangle without id, a square whose ring is
\* not closed, a ring of two coordinates, a bowtie, a polygon without arcs
TopoMixed ==
    [arcs |-> << <<<<0, 0>>, <<6, 0>>, <<0, 6>>, <<0, 0>>>>,
                 <<<<8, 0>>, <<12, 0>>, <<12, 4>>, <<8, 4>>>>,
                 <<<<0, 8>>, <<4, 8>>>>,
                 <<<<0, 8>>, <<4, 12>>, <<4, 8>>, <<0, 12>>, <<0, 8>>>> >>,
     transform |-> NoTransform,
     geometries |-> << Geom("LineString", Id(<<"9", "9", "9", "9", "9">>), <<0>>),
                       Geom("Polygon", NoId, << <<0>> >>),
                       Geom("Polygon", Id(<<"1", "2", "3", "4", "5", "6">>), << <<1>> >>),
                       Geom("Polygon", Id(<<"7">>), << <<2>> >>),
                       Geom("Polygon", Id(<<"4", "8">>), << <<3>> >>),
                       GeomNoArcs("Polygon", Id(<<"5">>)) >>]

\* the second geometry references arc 5 of a table of 2 arcs
TopoBadRef ==
    [arcs |-> << <<<<0, 0>>, <<4, 0>>, <<4, 4>>, <<0, 4>>, <<0, 0>>>>,
                 <<<<6, 0>>, <<10, 0>>, <<10, 4>>, <<6, 4>>, <<6, 0>>>> >>,
     transform |-> NoTransform,
     geometries |-> << Geom("Polygon", Id(<<"0", "1", "0", "0", "1">>), << <<0>> >>),
                       Geom("Polygon", Id(<<"0", "1", "0", "0", "3">>), << <<5>> >>),
                       Geom("Polygon", Id(<<"0", "1", "0", "0", "5">>), << <<-2>> >>) >>]

\* no geometry is valid: another type and a bowtie
TopoNoValid ==
    [arcs |-> << <<<<0, 8>>, <<4, 12>>, <<4, 8>>, <<0, 12>>, <<0, 8>>>> >>,
     transform |-> NoTransform,
     geometries |-> << Geom("Point", Id(<<"1">>), <<>>),
                       Geom("Polygon", Id(<<"4", "8">>), << <<0>> >>) >>]

Topologies == {TopoAdjacent, TopoHole, TopoMixed, TopoBadRef, TopoNoValid}

\* [lon, lat, status]: positions inside, on and near the boundaries above,
\* status codes in and out of 0..3
PointSet ==
    { <<2, 2, 0>>, <<2, 2, 4>>, <<6, 2, 1>>, <<4, 2, 2>>, <<5, 5, 3>>,
      <<10, 2, 3>>, <<11, 2, 0>>, <<14, 2, 2>>, <<4, 5, -1>> }

PointLists == UNION {[1..n -> PointSet] : n \in 0..MaxPoints}

Perms(n) == {s \in [1..n -> 1..n] : \A a, b \in 1..n : a # b => s[a] # s[b]}

-----------------------------------------------------------------------------
(* main()  (lines 106-181) *)

NoCall == [fn |-> "none", arg |-> <<>>]

Init ==
    /\ pc = "decode"
    /\ exc = ""
    /\ topo \in Topologies
    /\ points \in PointLists
    /\ county_features = <<>>
    /\ fi = 0
    /\ county_shapes = <<>>
    /\ county_fips_list = <<>>
    /\ tree = <<>>
    /\ i = 0
    /\ idx = 0
    /\ density = <<>>
    /\ assigned = 0
    /\ unassigned = 0
    /\ stats = <<>>
    /\ call = NoCall
    /\ ret = Raised
    /\ GeoIdle

\* line 116: an IndexError of decode_arc is not caught and ends the run
Decode ==
    /\ pc = "decode"
    /\ LET r == TopojsonToGeojsonFeatures(topo)
       IN  IF r.ok
           THEN /\ county_features' = r.features
                /\ pc' = "build"
                /\ exc' = exc
           ELSE /\ county_features' = county_features
                /\ pc' = "aborted"
                /\ exc' = "IndexError_arcs"
    /\ UNCHANGED <<topo, points, fi, county_shapes, county_fips_list, tree, i,
                   idx, density, assigned, unassigned, stats, call, ret, geoVars>>

\* lines 123-130: one feature of the build loop
\* mutant: the fips is appended before the geometry is built and validated
BuildShape_fipsFirst ==
    /\ pc = "build"
    /\ fi < Len(county_features)
    /\ LET feat == county_features[fi + 1]
           geom == Shape(feat.geometry)
       IN  /\ county_fips_list' = Append(county_fips_list, Zfill(Str(feat.id), 5))
           /\ IF geom.ok /\ IsValid(geom)
              THEN county_shapes' = Append(county_shapes,
                                           [type |-> geom.type, polys |-> geom.polys])
              ELSE county_shapes' = county_shapes
    /\ fi' = fi + 1
    /\ UNCHANGED <<pc, exc, topo, points, county_features, tree, i, idx, density,
                   assigned, unassigned, stats, call, ret, geoVars>>


BuildShape ==
    /\ pc = "build"
    /\ fi < Len(county_features)
    /\ LET feat == county_features[fi + 1]
           geom == Shape(feat.geometry)
       IN  IF geom.ok /\ IsValid(geom)
           THEN /\ county_shapes' = Append(county_shapes,
                                           [type |-> geom.type, polys |-> geom.polys])
                /\ county_fips_list' = Append(county_fips_list, Zfill(Str(feat.id), 5))
           ELSE UNCHANGED <<county_shapes, county_fips_list>>
    /\ fi' = fi + 1
    /\ UNCHANGED <<pc, exc, topo, points, county_features, tree, i, idx, density,
                   assigned, unassigned, stats, call, ret, geoVars>>

\* mutant: the tree is built while features are still waiting to be validated
BuildIndex_early ==
    /\ pc = "build"
    /\ tree' \in Perms(Len(county_shapes))
    /\ pc' = "assign"
    /\ UNCHANGED <<exc, topo, points, county_features, fi, county_shapes,
                   county_fips_list, i, idx, density, assigned, unassigned,
                   stats, call, ret, geoVars>>

\* line 135: the tree is built once over county_shapes; the order in which it
\* reports geometries at equal distance is fixed by the build and not known
BuildIndex ==
    /\ pc = "build"
    /\ fi = Len(county_features)
    /\ tree' \in Perms(Len(county_shapes))
    /\ pc' = "assign"
    /\ UNCHANGED <<exc, topo, points, county_features, fi, county_shapes,
                   county_fips_list, i, idx, density, assigned, unassigned,
                   stats, call, ret, geoVars>>

\* lines 144-165: the loop body for point i
AssignPoint ==
    /\ pc = "assign"
    /\ i < Len(points)
    /\ LET pt == <<points[i + 1][1], points[i + 1][2]>>
           status == points[i + 1][3]
           k == QueryNearestFirst(county_shapes, tree, pt)
       IN  IF k = 0
           THEN /\ pc' = "aborted"
                /\ exc' = "IndexError_idx0"
                /\ UNCHANGED <<i, idx, density, assigned, unassigned>>
           ELSE LET r == Resolve(Accepts(county_shapes[k], pt), density, assigned,
                                 unassigned, FipsAt(county_fips_list, k), status)
                IN  /\ idx' = k
                    /\ density' = r.density
                    /\ assigned' = r.assigned
                    /\ unassigned' = r.unassigned
                    /\ i' = i + 1
                    /\ UNCHANGED <<pc, exc>>
    /\ UNCHANGED <<topo, points, county_features, fi, county_shapes,
                   county_fips_list, tree, stats, call, ret, geoVars>>

\* lines 167-181: max() of an empty list raises ValueError before the file is written
ReportStats ==
    IF DOMAIN density = {}
    THEN /\ pc' = "aborted"
         /\ exc' = "ValueError_max"
         /\ stats' = stats
    ELSE /\ pc' = "done"
         /\ exc' = exc
         /\ stats' = Stats(density)

Report ==
    /\ pc = "assign"
    /\ i = Len(points)
    /\ ReportStats
    /\ UNCHANGED <<topo, points, county_features, fi, county_shapes,
                   county_fips_list, tree, i, idx, density, assigned, unassigned,
                   call, ret, geoVars>>

Next == Decode \/ BuildShape \/ BuildIndex \/ AssignPoint \/ Report

Spec == Init /\ [][Next]_vars

-----------------------------------------------------------------------------
(* The decoder on generated arc tables: decode_arc and decode_ring are      *)
(* called with every reference and every short reference list, one call     *)
(* after another, against a table drawn from ArcTables.                     *)

\* pair k of generated arc j; distinct along an arc, never <<0, 0>>
GenPair(j, k, pat) == IF pat = 1 THEN <<k + j - 1, 2 * j - k>> ELSE <<0 - k, j + k>>

GenArc(j, len, pat) == [k \in 1..len |-> GenPair(j, k, pat)]

\* the arc of the worked example: [[0,0],[2,3],[-1,-1]]
ExampleArcs == << <<<<0, 0>>, <<2, 3>>, <<-1, -1>>>> >>

ArcTables ==
    {ExampleArcs} \cup
    UNION {{[j \in 1..n |-> GenArc(j, lens[j], pat)] :
              lens \in [1..n -> 0..MaxArcLen], pat \in {1, 2}} : n \in 0..MaxArcs}

Transforms == {NoTransform, Transform(<<2, 2>>, <<10, 10>>), Transform(<<3, 2>>, <<-1, 4>>)}

\* references into a table of at most MaxArcs arcs, some out of range
ArcRefs == (0 - (MaxArcs + 1))..MaxArcs

RingArgs == UNION {[1..n -> ArcRefs] : n \in 0..MaxRingArcs}

InitDecode ==
    /\ pc = "decoder"
    /\ exc = ""
    /\ topo \in {[arcs |-> a, transform |-> t, geometries |-> <<>>] :
                   a \in ArcTables, t \in Transforms}
    /\ points = <<>>
    /\ county_features = <<>>
    /\ fi = 0
    /\ county_shapes = <<>>
    /\ county_fips_list = <<>>
    /\ tree = <<>>
    /\ i = 0
    /\ idx = 0
    /\ density = <<>>
    /\ assigned = 0
    /\ unassigned = 0
    /\ stats = <<>>
    /\ call = NoCall
    /\ ret = Raised
    /\ GeoIdle

\* decode_arc(arc_index), lines 45-66
CallDecodeArc ==
    /\ pc = "decoder"
    /\ call = NoCall
    /\ \E ref \in ArcRefs :
          /\ call' = [fn |-> "decode_arc", arg |-> <<ref>>]
          /\ ret' = DecodeArc(topo.arcs, topo.transform, ref)
          /\ topo' = [topo EXCEPT !.arcs = ArcsAfterDecodeArc(topo.arcs, topo.transform, ref)]
    /\ UNCHANGED mainVars

\* decode_ring(arc_indices), lines 68-77
CallDecodeRing ==
    /\ pc = "decoder"
    /\ call = NoCall
    /\ \E refs \in RingArgs :
          /\ call' = [fn |-> "decode_ring", arg |-> refs]
          /\ ret' = DecodeRing(topo.arcs, topo.transform, refs)
          /\ topo' = [topo EXCEPT !.arcs = ArcsAfterDecodeRing(topo.arcs, topo.transform, refs)]
    /\ UNCHANGED mainVars

\* the caller takes the result; the next call may follow
TakeResult ==
    /\ pc = "decoder"
    /\ call # NoCall
    /\ call' = NoCall
    /\ ret' = Raised
    /\ UNCHANGED <<topo, mainVars>>

NextDecode == CallDecodeArc \/ CallDecodeRing \/ TakeResult

SpecDecode == InitDecode /\ [][NextDecode]_vars

-----------------------------------------------------------------------------
(* The statistics of lines 172-175 on generated histograms *)

FipsKey(k) == <<"0", "0", "0", "0", <<"1", "2", "3", "4", "5", "6", "7", "8", "9">>[k]>>

\* histograms of up to MaxCounties counties, each with a total in 1..MaxTotal
\* made of points of status 0
Histograms ==
    UNION {{[f \in {FipsKey(k) : k \in S} |->
               LET k == CHOOSE c \in S : FipsKey(c) = f
               IN  <<tot[k], tot[k], 0, 0, 0>>] : tot \in [S -> 1..MaxTotal]}
           : S \in SUBSET (1..MaxCounties)}

InitReport ==
    /\ pc = "stats"
    /\ exc = ""
    /\ topo = [arcs |-> <<>>, transform |-> NoTransform, geometries |-> <<>>]
    /\ points = <<>>
    /\ county_features = <<>>
    /\ fi = 0
    /\ county_shapes = <<>>
    /\ county_fips_list = <<>>
    /\ tree = <<>>
    /\ i = 0
    /\ idx = 0
    /\ density \in Histograms
    /\ assigned = SumSeq(SortedTotals(density, DOMAIN density))
    /\ unassigned = 0
    /\ stats = <<>>
    /\ call = NoCall
    /\ ret = Raised
    /\ GeoIdle

\* lines 172-175 applied to the histogram
CallStats ==
    /\ pc = "stats"
    /\ ReportStats
    /\ UNCHANGED <<topo, points, county_features, fi, county_shapes,
                   county_fips_list, tree, i, idx, density, assigned, unassigned,
                   call, ret, geoVars>>

NextReport == CallStats

SpecReport == InitReport /\ [][NextReport]_vars

-----------------------------------------------------------------------------
(* geocode_pharmacies.py: pure parts.  A CSV row is [npi, display_name,     *)
(* estimated_status, zip]; estimated_status is [has, text].  Coordinates    *)
(* are integers in units of 0.000001 degree; None is the string "None".     *)

\* lines 26-31
STATUS_MAP ==
    ("Active" :> 0) @@ ("Likely Active" :> 1) @@ ("Uncertain" :> 2) @@ ("Likely Closed" :> 3)

\* line 214: STATUS_MAP.get(pharm.get("estimated_status", ""), 2)
StatusCode(pharm) ==
    LET text == IF pharm.estimated_status.has THEN pharm.estimated_status.text ELSE ""
    IN  IF text \in DOMAIN STATUS_MAP THEN STATUS_MAP[text] ELSE 2

\* lines 107, 220, 233: zip[:5]
Zip5(zip) == SubSeq(zip, 1, Min2(5, Len(zip)))

\* line 228: round(x, 5), to the even neighbour when halfway
Round5(v) ==
    LET q == v \div 10
        r == v % 10
    IN  IF r < 5 THEN 10 * q
        ELSE IF r > 5 THEN 10 * (q + 1)
        ELSE IF q % 2 = 0 THEN 10 * q ELSE 10 * (q + 1)

\* line 216: the row has a geocode result
HasResult(res, npi) == npi \in DOMAIN res /\ res[npi] # "None"

\* mutant: the ZIP centroid is preferred to the geocode result
EmitRow_centroidFirst(pharm, res, centroids) ==
    IF Zip5(pharm.zip) \in DOMAIN centroids
    THEN [emit |-> TRUE, fallback |-> TRUE, coords |-> centroids[Zip5(pharm.zip)]]
    ELSE IF HasResult(res, pharm.npi)
    THEN [emit |-> TRUE, fallback |-> FALSE, coords |-> res[pharm.npi]]
    ELSE [emit |-> FALSE, fallback |-> FALSE, coords |-> <<>>]

\* lines 216-226: the coordinates of a row, or the skip of line 226
EmitRow(pharm, res, centroids) ==
    IF HasResult(res, pharm.npi)
    THEN [emit |-> TRUE, fallback |-> FALSE, coords |-> res[pharm.npi]]
    ELSE IF Zip5(pharm.zip) \in DOMAIN centroids
    THEN [emit |-> TRUE, fallback |-> TRUE, coords |-> centroids[Zip5(pharm.zip)]]
    ELSE [emit |-> FALSE, fallback |-> FALSE, coords |-> <<>>]

\* line 228
PointOf(pharm, coords) == <<Round5(coords[1]), Round5(coords[2]), StatusCode(pharm)>>

\* lines 229-244: the fields kept of the details record
DetailOf(pharm) == [n |-> pharm.display_name, z |-> Zip5(pharm.zip)]

\* mutant: every row is geocoded again, cached or not
Remaining_all(pharms, res) == pharms

\* line 177
Remaining(pharms, res) == SelectSeq(pharms, LAMBDA p : p.npi \notin DOMAIN res)

\* line 182: [remaining[i:i + BATCH_SIZE] for i in range(0, len(remaining), BATCH_SIZE)]
Split(remaining) ==
    [b \in 1..((Len(remaining) + BATCH_SIZE - 1) \div BATCH_SIZE) |->
       SubSeq(remaining, (b - 1) * BATCH_SIZE + 1, Min2(b * BATCH_SIZE, Len(remaining)))]

\* line 120: range(3)
MaxAttempts == 3

\* mutant: the batch is given up one failure later
GivesUp_late(att) == att >= 3

\* lines 127-131: the failed attempt was the last
GivesUp(att) == ~(att < 2)

\* lines 189-190
StoreResults(res, batch_results) ==
    [n \in (DOMAIN res) \cup (DOMAIN batch_results) |->
       IF n \in DOMAIN batch_results THEN batch_results[n] ELSE res[n]]

-----------------------------------------------------------------------------
(* geocode_pharmacies.py: inputs and main()  (lines 162-262) *)

Status(text) == [has |-> TRUE, text |-> text]
NoStatus == [has |-> FALSE, text |-> ""]

Row(npi, name, status, zip) ==
    [npi |-> npi, display_name |-> name, estimated_status |-> status, zip |-> zip]

\* rows with every status text of STATUS_MAP but one, an unknown status, a
\* missing status, a ZIP+4, a short zip, and an npi that occurs twice
PharmacySet ==
    { Row(11, "a", Status("Active"), <<"4", "0", "2", "0", "2">>),
      Row(12, "b", Status("Likely Closed"),
          <<"4", "0", "2", "9", "9", "-", "1", "2", "3", "4">>),
      Row(13, "c", NoStatus, <<"9", "9", "9", "9", "9">>),
      Row(11, "d", Status("Closed"), <<"4", "0", "2">>),
      Row(14, "e", Status("Likely Active"), <<"4", "0", "2", "0", "2">>) }

PharmacyLists == UNION {[1..n -> PharmacySet] : n \in 0..MaxPharmacies}

\* zcta_centroids.json
ZipCentroids ==
    (<<"4", "0", "2", "0", "2">> :> <<-85751235, 38252665>>) @@
    (<<"4", "0", "2", "9", "9">> :> <<-85598004, 38161996>>)

\* the addresses the Census geocoder matches, and where
CensusMatches == (11 :> <<-85759407, 38254238>>) @@ (14 :> <<-85760015, 38250005>>)

\* geocode_cache.json when the run starts: absent or empty, results of an
\* earlier run (one for an npi no longer in the CSV), a null entry
Caches ==
    { <<>>,
      (13 :> <<-84500123, 39100456>>) @@ (17 :> <<-80000000, 40000000>>),
      (12 :> "None") @@ (11 :> <<-85759407, 38254238>>) }

\* lines 134-157: the matches of a response to the batch
Response(batch) ==
    [n \in {batch[k].npi : k \in 1..Len(batch)} \cap DOMAIN CensusMatches |-> CensusMatches[n]]

\* lines 163-174: the CSV, the centroids and the cache are loaded
InitGeocode ==
    /\ pc = "resume"
    /\ exc = ""
    /\ topo = [arcs |-> <<>>, transform |-> NoTransform, geometries |-> <<>>]
    /\ points = <<>>
    /\ county_features = <<>>
    /\ fi = 0
    /\ county_shapes = <<>>
    /\ county_fips_list = <<>>
    /\ tree = <<>>
    /\ i = 0
    /\ idx = 0
    /\ density = <<>>
    /\ assigned = 0
    /\ unassigned = 0
    /\ stats = <<>>
    /\ call = NoCall
    /\ ret = Raised
    /\ pharmacies \in PharmacyLists
    /\ zip_centroids = ZipCentroids
    /\ cache_file \in Caches
    /\ all_results = cache_file
    /\ batches = <<>>
    /\ attempt = 0
    /\ posts = 0
    /\ parsed = FALSE
    /\ results = <<>>
    /\ pj = 0
    /\ details = <<>>
    /\ fallback_count = 0
    /\ skip_count = 0

assignVars == <<exc, topo, county_features, fi, county_shapes, county_fips_list,
                tree, idx, density, assigned, unassigned, stats, call, ret>>

\* lines 177-183: i counts the batches whose loop body has completed
SplitBatches ==
    /\ pc = "resume"
    /\ batches' = Split(Remaining(pharmacies, all_results))
    /\ pc' = IF Len(batches') = 0 THEN "output" ELSE "post"
    /\ UNCHANGED <<assignVars, points, i, pharmacies, zip_centroids, all_results,
                   cache_file, attempt, posts, parsed, results, pj, details,
                   fallback_count, skip_count>>

\* lines 120-131: a POST that raises; the batch is given up after the third
PostFails ==
    /\ pc = "post"
    /\ attempt < MaxAttempts
    /\ posts' = posts + 1
    /\ IF GivesUp(attempt)
       THEN /\ results' = <<>>
            /\ pc' = "store"
            /\ attempt' = attempt
       ELSE /\ attempt' = attempt + 1
            /\ UNCHANGED <<results, pc>>
    /\ UNCHANGED <<assignVars, points, i, pharmacies, zip_centroids, all_results,
                   cache_file, batches, parsed, pj, details, fallback_count,
                   skip_count>>

\* lines 120-124 and 134-157: a POST that succeeds, and its response parsed
PostSucceeds ==
    /\ pc = "post"
    /\ attempt < MaxAttempts
    /\ posts' = posts + 1
    /\ parsed' = TRUE
    /\ results' = Response(batches[i + 1])
    /\ pc' = "store"
    /\ UNCHANGED <<assignVars, points, i, pharmacies, zip_centroids, all_results,
                   cache_file, batches, attempt, pj, details, fallback_count,
                   skip_count>>

\* lines 186-199: the results are stored, the cache is written, and the loop
\* goes to the next batch; posts and parsed restart with it
StoreBatch ==
    /\ pc = "store"
    /\ all_results' = StoreResults(all_results, results)
    /\ cache_file' = all_results'
    /\ i' = i + 1
    /\ IF i' < Len(batches)
       THEN /\ pc' = "post"
            /\ attempt' = 0
            /\ posts' = 0
            /\ parsed' = FALSE
       ELSE /\ pc' = "output"
            /\ UNCHANGED <<attempt, posts, parsed>>
    /\ UNCHANGED <<assignVars, points, pharmacies, zip_centroids, batches, results,
                   pj, details, fallback_count, skip_count>>

\* lines 212-244: one pass of the output loop
OutputRow ==
    /\ pc = "output"
    /\ pj < Len(pharmacies)
    /\ LET pharm == pharmacies[pj + 1]
           e == EmitRow(pharm, all_results, zip_centroids)
       IN  /\ fallback_count' = IF e.fallback THEN fallback_count + 1 ELSE fallback_count
           /\ IF e.emit
              THEN /\ points' = Append(points, PointOf(pharm, e.coords))
                   /\ details' = Append(details, DetailOf(pharm))
                   /\ skip_count' = skip_count
              ELSE /\ skip_count' = skip_count + 1
                   /\ UNCHANGED <<points, details>>
    /\ pj' = pj + 1
    /\ UNCHANGED <<assignVars, pc, i, pharmacies, zip_centroids, all_results,
                   cache_file, batches, attempt, posts, parsed, results>>

\* lines 246-262: the two lists are written
WriteOutput ==
    /\ pc = "output"
    /\ pj = Len(pharmacies)
    /\ pc' = "written"
    /\ UNCHANGED <<assignVars, points, i, geoVars>>

NextGeocode ==
    SplitBatches \/ PostFails \/ PostSucceeds \/ StoreBatch \/ OutputRow \/ WriteOutput

SpecGeocode == InitGeocode /\ [][NextGeocode]_vars

-----------------------------------------------------------------------------
(* Properties of the assignment loop, checked under Spec *)

PointAt(k) == <<points[k][1], points[k][2]>>
StatusAt(k) == points[k][3]

\* the squared tolerance as a rational
Tol2 == <<Tolerance * Tolerance, 1>>

\* the record of fips f before its first assignment counts as all zero
RecordOf(dens, f) == IF f \in DOMAIN dens THEN dens[f] ELSE <<0, 0, 0, 0, 0>>

\* this step credited one point to f and touched no other record
OnlyRecordIncremented(f) ==
    /\ DOMAIN density' = (DOMAIN density) \cup {f}
    /\ density'[f][1] = RecordOf(density, f)[1] + 1
    /\ \A g \in (DOMAIN density') \ {f} : g \in DOMAIN density /\ density'[g] = density[g]

\* C1: a point its candidate does not contain is assigned to the candidate's
\* fips exactly when its distance to the candidate is strictly below 0.01;
\* at 0.01 or more it is counted unassigned and the histogram is untouched.
C1_ToleranceFallback ==
    [][(i' = i + 1 /\ ~Contains(county_shapes[idx'], PointAt(i'))) =>
          IF RLess(Distance2(county_shapes[idx'], PointAt(i')), Tol2)
          THEN /\ assigned' = assigned + 1
               /\ unassigned' = unassigned
               /\ OnlyRecordIncremented(county_fips_list[idx'])
          ELSE /\ unassigned' = unassigned + 1
               /\ assigned' = assigned
               /\ density' = density]_vars

\* first a point outside its candidate at distance below the tolerance
\* (assigned), then one at exactly the tolerance (unassigned)
C1_Witness ==
    /\ pc = "assign" /\ i = 2 /\ assigned = 1 /\ unassigned = 1
    /\ LET k1 == QueryNearestFirst(county_shapes, tree, PointAt(1))
           d1 == Distance2(county_shapes[k1], PointAt(1))
           d2 == Distance2(county_shapes[idx], PointAt(2))
       IN  /\ ~Contains(county_shapes[k1], PointAt(1))
           /\ RLess(<<0, 1>>, d1) /\ RLess(d1, Tol2)
           /\ county_fips_list[k1] \in DOMAIN density
           /\ ~RLess(d2, Tol2) /\ ~RLess(Tol2, d2)

\* C2: a point its candidate contains is assigned to that candidate's fips:
\* that record's total goes up by one and no other record changes.
C2_ContainedAssigned ==
    [][(i' = i + 1 /\ Contains(county_shapes[idx'], PointAt(i'))) =>
          /\ assigned' = assigned + 1
          /\ unassigned' = unassigned
          /\ OnlyRecordIncremented(county_fips_list[idx'])]_vars

\* two points, contained in the first and in the second geometry, each
\* credited to its own county
C2_Witness ==
    /\ i = 2 /\ assigned = 2 /\ idx = 2
    /\ Contains(county_shapes[1], PointAt(1))
    /\ Contains(county_shapes[2], PointAt(2))
    /\ county_fips_list[1] # county_fips_list[2]
    /\ DOMAIN density = {county_fips_list[1], county_fips_list[2]}
    /\ density[county_fips_list[1]][1] = 1
    /\ density[county_fips_list[2]][1] = 1

SumTotals(dens) == SumSeq(SortedTotals(dens, DOMAIN dens))

\* C4: when every processed status code is in 0..3, each record has
\* total = c0 + c1 + c2 + c3, and the totals plus unassigned count the
\* processed points.
C4_TotalsAddUp ==
    (\A k \in 1..i : StatusAt(k) \in 0..3) =>
        /\ \A f \in DOMAIN density :
              density[f][1] = density[f][2] + density[f][3] + density[f][4] + density[f][5]
        /\ SumTotals(density) + unassigned = i

\* two points with status 0 and 2 in one county
C4_Witness ==
    /\ i = 2
    /\ StatusAt(1) = 0 /\ StatusAt(2) = 2
    /\ \E f \in DOMAIN density : density[f] = <<2, 1, 0, 1, 0>>

\* C5: an assigned point with status s adds 1 to the county's total and,
\* exactly when 0 <= s <= 3, 1 to bucket s; nothing else in the record moves.
C5_AggregateBuckets ==
    [][(i' = i + 1 /\ assigned' = assigned + 1) =>
          LET f == county_fips_list[idx']
              old == RecordOf(density, f)
          IN  /\ f \in DOMAIN density'
              /\ Len(density'[f]) = 5
              /\ density'[f][1] = old[1] + 1
              /\ \A b \in 0..3 :
                    density'[f][b + 2] = old[b + 2] + (IF StatusAt(i') = b THEN 1 ELSE 0)]_vars

\* a status outside 0..3 and a status 3, both assigned to one county
C5_Witness ==
    /\ i = 2
    /\ StatusAt(1) \notin 0..3 /\ StatusAt(2) = 3
    /\ \E f \in DOMAIN density : density[f] = <<2, 0, 0, 0, 1>>

\* every arc reference of the geometry resolves to an index of the table
RECURSIVE RefsInRange(_, _, _)
RefsInRange(arcsData, depth, n) ==
    IF depth = 0
    THEN (IF arcsData < 0 THEN (0 - arcsData) - 1 ELSE arcsData) < n
    ELSE \A k \in 1..Len(arcsData) : RefsInRange(arcsData[k], depth - 1, n)

GeometryInRange(geom, n) ==
    IF geom.type = "Polygon" THEN RefsInRange(ArcsData(geom), 2, n)
    ELSE IF geom.type = "MultiPolygon" THEN RefsInRange(ArcsData(geom), 3, n)
    ELSE TRUE

AllRefsInRange(t) ==
    \A g \in 1..Len(t.geometries) : GeometryInRange(t.geometries[g], Len(t.arcs))

\* C6: for a well-formed topology and any point list the run completes: it
\* never ends in an uncaught exception.
C6_RunCompletes == AllRefsInRange(topo) => pc # "aborted"

\* the geometries that reference no arc out of range, in order
InRangeGeometries(t) ==
    SelectSeq(t.geometries, LAMBDA g : GeometryInRange(g, Len(t.arcs)))

\* C7: a geometry that references an arc out of range is the only one
\* dropped: the others are decoded and returned, and the run goes on.
C7_OnlyBadGeometryDropped ==
    pc # "decode" =>
        /\ exc # "IndexError_arcs"
        /\ county_features =
             FeaturesFrom(topo.arcs, topo.transform, InRangeGeometries(topo), <<>>).features

-----------------------------------------------------------------------------
(* Properties of the decoder, checked under SpecDecode *)

\* the table index a reference resolves to
RefIndex(ref) == IF ref < 0 THEN (0 - ref) - 1 ELSE ref

\* the lengths of the arcs a reference list names
ArcLens(refs) == [k \in 1..Len(refs) |-> Len(topo.arcs[RefIndex(refs[k]) + 1])]

\* C8 as stated: any ring of k >= 1 arcs has length sum(len(arc_i)) - (k-1).
C8_RingLengthAnyArcs ==
    (call.fn = "decode_ring" /\ Len(call.arg) >= 1 /\ ret.ok) =>
        Len(ret.coords) = SumSeq(ArcLens(call.arg)) - (Len(call.arg) - 1)

\* C8: a ring of k >= 1 arcs that each hold at least one coordinate has
\* length sum(len(arc_i)) - (k-1).
C8_RingLength ==
    (/\ call.fn = "decode_ring" /\ Len(call.arg) >= 1 /\ ret.ok
     /\ \A k \in 1..Len(call.arg) : ArcLens(call.arg)[k] >= 1) =>
        Len(ret.coords) = SumSeq(ArcLens(call.arg)) - (Len(call.arg) - 1)

\* two arcs of length 3 and 3 give a ring of length 5
C8_Witness ==
    /\ call.fn = "decode_ring" /\ Len(call.arg) = 2 /\ ret.ok
    /\ ArcLens(call.arg) = <<3, 3>>
    /\ Len(ret.coords) = 5

\* C9: with a transform, position k of a decoded arc is the sum of the
\* first k pairs mapped through x*scaleX + translateX, y*scaleY + translateY.
C9_TransformedRunningSum ==
    (/\ call.fn = "decode_arc" /\ call.arg[1] >= 0 /\ ret.ok
     /\ topo.transform.present) =>
        LET a == topo.arcs[call.arg[1] + 1]
            t == topo.transform
        IN  /\ Len(ret.coords) = Len(a)
            /\ \A k \in 1..Len(a) :
                  ret.coords[k] =
                    <<SumSeq([j \in 1..k |-> a[j][1]]) * t.scale[1] + t.translate[1],
                      SumSeq([j \in 1..k |-> a[j][2]]) * t.scale[2] + t.translate[2]>>

\* the worked example: [[0,0],[2,3],[-1,-1]], scale [2,2], translate [10,10]
C9_Witness ==
    /\ call = [fn |-> "decode_arc", arg |-> <<0>>]
    /\ topo.arcs = ExampleArcs
    /\ topo.transform = Transform(<<2, 2>>, <<10, 10>>)
    /\ ret = Returned(<< <<10, 10>>, <<14, 16>>, <<12, 14>> >>)

\* C10: decoding -(i+1) for a valid index i gives the decoding of i, reversed.
C10_NegativeRefReverses ==
    (/\ call.fn = "decode_arc" /\ call.arg[1] < 0
     /\ RefIndex(call.arg[1]) < Len(topo.arcs)) =>
        /\ ret.ok
        /\ ret.coords =
             Reverse(DecodeArc(topo.arcs, topo.transform, RefIndex(call.arg[1])).coords)

\* reference -1 on the example arc under a transform
C10_Witness ==
    /\ call = [fn |-> "decode_arc", arg |-> <<-1>>]
    /\ topo.arcs = ExampleArcs
    /\ topo.transform.present
    /\ Len(ret.coords) = 3
    /\ ret.coords[1] # ret.coords[3]
    /\ ret.coords[1] = DecodeArc(topo.arcs, topo.transform, 0).coords[3]


\* C11: without a transform, decoding an arc returns its stored pairs
\* unchanged; no running sum is applied.
C11_NoTransformUnchanged ==
    (/\ call.fn = "decode_arc" /\ call.arg[1] >= 0 /\ ret.ok
     /\ ~topo.transform.present) =>
        ret.coords = topo.arcs[call.arg[1] + 1]

\* the example arc comes back as stored
C11_Witness ==
    /\ call = [fn |-> "decode_arc", arg |-> <<0>>]
    /\ topo.arcs = ExampleArcs
    /\ ~topo.transform.present
    /\ ret = Returned(<< <<0, 0>>, <<2, 3>>, <<-1, -1>> >>)

\* C12 as stated: without a transform, output coordinate k is the sum of
\* the stored pairs up to k ([[0,0],[2,3],[-1,-1]] gives [[0,0],[2,3],[1,2]]).
C12_CumulativeWithoutTransform ==
    (/\ call.fn = "decode_arc" /\ call.arg[1] >= 0 /\ ret.ok
     /\ ~topo.transform.present) =>
        LET a == topo.arcs[call.arg[1] + 1]
        IN  /\ Len(ret.coords) = Len(a)
            /\ \A k \in 1..Len(a) :
                  ret.coords[k] = <<SumSeq([j \in 1..k |-> a[j][1]]),
                                    SumSeq([j \in 1..k |-> a[j][2]])>>

\* C12: without a transform, output coordinate k is stored pair k itself:
\* [[0,0],[2,3],[-1,-1]] gives [[0,0],[2,3],[-1,-1]].
C12_StoredPairsWithoutTransform ==
    (/\ call.fn = "decode_arc" /\ call.arg[1] >= 0 /\ ret.ok
     /\ ~topo.transform.present) =>
        LET a == topo.arcs[call.arg[1] + 1]
        IN  /\ Len(ret.coords) = Len(a)
            /\ \A k \in 1..Len(a) : ret.coords[k] = a[k]
            /\ a = ExampleArcs[1] => ret.coords[3] = <<-1, -1>>

\* the third coordinate of the example is the stored <<-1, -1>>, not <<1, 2>>
C12_Witness ==
    /\ call.fn = "decode_arc" /\ call.arg = <<0>> /\ ret.ok
    /\ topo.arcs = ExampleArcs
    /\ topo.transform = NoTransform
    /\ Len(ret.coords) = 3
    /\ ret.coords[3] = <<-1, -1>>
    /\ ret.coords[3] # <<1, 2>>

\* C13: a reference whose resolved index is outside 0..len(arcs)-1 raises;
\* it never returns coordinates, so never those of another arc.
C13_OutOfRangeRaises ==
    /\ (call.fn = "decode_arc" /\ RefIndex(call.arg[1]) >= Len(topo.arcs)) => ~ret.ok
    /\ (/\ call.fn = "decode_ring"
        /\ \E k \in 1..Len(call.arg) : RefIndex(call.arg[k]) >= Len(topo.arcs)) => ~ret.ok

\* a negative reference past the end of a table that holds arcs
C13_Witness ==
    /\ call.fn = "decode_arc"
    /\ call.arg[1] < 0
    /\ Len(topo.arcs) >= 1
    /\ Len(topo.arcs[1]) >= 1
    /\ RefIndex(call.arg[1]) >= Len(topo.arcs)
    /\ ~ret.ok

-----------------------------------------------------------------------------
(* Properties of the build loop and the index, checked under Spec *)

\* some ring of the decoded geometry has a last coordinate unlike its first
HasUnclosedRing(geometry) ==
    \E k \in 1..Len(PolygonsOf(geometry)) :
       \E r \in 1..Len(PolygonsOf(geometry)[k]) :
          LET ring == PolygonsOf(geometry)[k][r]
          IN  Len(ring) > 0 /\ ring[1] # ring[Len(ring)]

\* C14: a polygon with a ring that does not close is never placed among the
\* indexed geometries.
C14_UnclosedNeverIndexed ==
    [][(fi' = fi + 1 /\ HasUnclosedRing(county_features[fi'].geometry)) =>
          county_shapes' = county_shapes]_vars

Range(seq) == {seq[k] : k \in 1..Len(seq)}

LiveShapes == {k \in 1..Len(county_shapes) : Len(county_shapes[k].polys) > 0}

IndexBuiltAfterValidation ==
    (pc # "assign" /\ pc' = "assign") =>
        /\ pc = "build"
        /\ fi = Len(county_features)
        /\ i = 0
        /\ county_shapes' = county_shapes
        /\ county_fips_list' = county_fips_list

\* a step taken once the loop was entered
IndexFrozen ==
    (pc \in {"assign", "done"} \/ i > 0) =>
        /\ county_shapes' = county_shapes
        /\ county_fips_list' = county_fips_list
        /\ tree' = tree

\* C17: the index is built once, after every feature went through the build
\* loop and before the first query; from then on the indexed geometries,
\* their fips list and the index do not change.
C17_IndexBuiltOnceImmutable ==
    /\ [][IndexBuiltAfterValidation]_vars
    /\ [][pc = "assign" => pc' \in {"assign", "done", "aborted"}]_vars
    /\ [][IndexFrozen]_vars
    /\ [][tree' # tree => pc = "build" /\ pc' = "assign"]_vars
    /\ [](i > 0 => pc \in {"assign", "done", "aborted"})

\* two points were queried against an index of two geometries
C17_Witness ==
    /\ pc = "done" /\ i = 2
    /\ fi = Len(county_features)
    /\ tree = <<2, 1>>
    /\ Len(county_shapes) = 2

-----------------------------------------------------------------------------
(* Properties of the assignment loop as a function of its inputs *)

\* the points the loop has processed so far
Processed == SubSeq(points, 1, i)

\* the loop ran on the index of this state, possibly not to its end
LoopEntered == pc \in {"assign", "done"} \/ exc \in {"IndexError_idx0", "ValueError_max"}

\* what a state holds of the loop's result
Outcome == [density |-> density, assigned |-> assigned, unassigned |-> unassigned]

OutcomeOf(r) == [density |-> r.density, assigned |-> r.assigned, unassigned |-> r.unassigned]

Permute(seq, perm) == [k \in 1..Len(seq) |-> seq[perm[k]]]

\* the element-wise sum of two partial results
Merge(h1, h2) ==
    [density |-> [f \in (DOMAIN h1.density) \cup (DOMAIN h2.density) |->
                    [k \in 1..5 |-> RecordOf(h1.density, f)[k] + RecordOf(h2.density, f)[k]]],
     assigned |-> h1.assigned + h2.assigned,
     unassigned |-> h1.unassigned + h2.unassigned]

\* the histogram and the counters before the first point
EmptyOutcome == [density |-> <<>>, assigned |-> 0, unassigned |-> 0, raised |-> FALSE]

\* the permuted and the sharded passes against the state of the sequential one
OrderAndShardIndependent ==
    LoopEntered =>
        LET hits == [k \in 1..i |-> Hit(county_shapes, county_fips_list, tree, points[k])]
        IN  \A perm \in Perms(i) : \A j \in 0..i :
               LET h1 == FoldHits(SubSeq(Permute(hits, perm), 1, j), EmptyOutcome)
                   h2 == FoldHits(SubSeq(Permute(hits, perm), j + 1, i), EmptyOutcome)
               IN  Merge(OutcomeOf(h1), OutcomeOf(h2)) = Outcome

\* C19: the points taken in any order, and split at any position into two
\* shards that are processed apart and summed, give the result of the
\* sequential pass.
C19_OrderAndShardIndependent == []OrderAndShardIndependent

\* two different points with different statuses fell in the same county
C19_Witness ==
    /\ pc = "done" /\ i = 2
    /\ points[1] # points[2]
    /\ StatusAt(1) # StatusAt(2)
    /\ \E f \in DOMAIN density : density[f][1] = 2

\* C20: a point whose candidate is rejected adds one to the unassigned
\* counter and leaves the histogram and the assigned counter as they were.
C20_UnassignedOnlyCounter ==
    [][(i' = i + 1 /\ ~Accepts(county_shapes[idx'], PointAt(i'))) =>
          /\ unassigned' = unassigned + 1
          /\ density' = density
          /\ assigned' = assigned]_vars

\* after one assigned point, a second point was rejected by a candidate that
\* has no record in the histogram
C20_Witness ==
    /\ i = 2 /\ assigned = 1 /\ unassigned = 1
    /\ ~Accepts(county_shapes[idx], PointAt(2))
    /\ FipsAt(county_fips_list, idx) \notin DOMAIN density

-----------------------------------------------------------------------------
(* Properties of the density map and of the feature decoder, under Spec *)

\* every record is a vector of 5 naturals with a total of at least 1, and
\* some processed point was accepted by a geometry carrying the record's key
DensitySparse ==
    \A f \in DOMAIN density :
       /\ Len(density[f]) = 5
       /\ \A k \in 1..5 : density[f][k] \in Nat
       /\ density[f][1] >= 1
       /\ \E n \in 1..i : \E g \in 1..Len(county_shapes) :
             /\ county_fips_list[g] = f
             /\ Len(county_shapes[g].polys) > 0
             /\ Contains(county_shapes[g], PointAt(n))
                   \/ RLess(Distance2(county_shapes[g], PointAt(n)), Tol2)

\* a step keeps every record and lowers no count
DensityMonotone ==
    /\ DOMAIN density \subseteq DOMAIN density'
    /\ \A f \in DOMAIN density : \A k \in 1..5 : density'[f][k] >= density[f][k]

\* C21: a county record exists only after a point was assigned to the county,
\* is a vector of 5 non-negative integers with total >= 1, is never removed,
\* and none of its counts ever decreases.
C21_DensitySparseMonotone ==
    /\ []DensitySparse
    /\ [][DensityMonotone]_vars

\* a record that grew from 1 to 2 in its total and in one status bucket
C21_Witness ==
    /\ i = 2
    /\ \E f \in DOMAIN density :
          density[f][1] = 2 /\ \E k \in 2..5 : density[f][k] = 2

\* the geometries of the document that are neither Polygon nor MultiPolygon
SkippedCount(t) ==
    Cardinality({k \in 1..Len(t.geometries) :
                    t.geometries[k].type \notin {"Polygon", "MultiPolygon"}})

\* C22: the number of geometries skipped for their type is among the counts
\* a completed run reports.
C22_SkippedCountReported ==
    pc = "done" => SkippedCount(topo) \in PrintedCounts

\* the positions of the Polygon and MultiPolygon geometries, in input order
KeptGeometries(t) ==
    SelectSeq([k \in 1..Len(t.geometries) |-> k],
              LAMBDA k : t.geometries[k].type \in {"Polygon", "MultiPolygon"})

\* line 116 returned: county_features holds the decoder's output
Decoded == pc \in {"build", "assign", "done"} \/ (pc = "aborted" /\ exc # "IndexError_arcs")

\* ring r of the output is the decoding of entry r of the arc-index list
RingsMatch(rings, ring_list) ==
    /\ Len(rings) = Len(ring_list)
    /\ \A r \in 1..Len(ring_list) :
          rings[r] = DecodeRing(topo.arcs, topo.transform, ring_list[r]).coords

\* feature n comes from the n-th Polygon or MultiPolygon of the input
FeatureMatches(n) ==
    LET g == topo.geometries[KeptGeometries(topo)[n]]
        f == county_features[n]
        a == IF g.hasArcs THEN g.arcs ELSE <<>>
    IN  /\ f.id = g.id
        /\ f.geometry.type = g.type
        /\ IF g.type = "Polygon"
           THEN RingsMatch(f.geometry.coordinates, a)
           ELSE /\ Len(f.geometry.coordinates) = Len(a)
                /\ \A p \in 1..Len(a) : RingsMatch(f.geometry.coordinates[p], a[p])

\* C23: the features are the Polygon and MultiPolygon geometries in input
\* order; a Polygon has one ring per entry of its arc-index list and a
\* MultiPolygon one polygon per outer entry, in the same order, and each
\* feature carries the identifier of its geometry.
C23_FeaturesFollowInput ==
    Decoded =>
        /\ Len(county_features) = Len(KeptGeometries(topo))
        /\ \A n \in 1..Len(county_features) : FeatureMatches(n)

\* a polygon of two rings and a multipolygon of two polygons were decoded
\* from between geometries of other types
C23_Witness ==
    /\ Decoded
    /\ SkippedCount(topo) = 3
    /\ Len(county_features) = 2
    /\ county_features[1].geometry.type = "Polygon"
    /\ Len(county_features[1].geometry.coordinates) = 2
    /\ county_features[1].geometry.coordinates[1][1] = <<1, 1>>
    /\ county_features[1].geometry.coordinates[2][1] = <<3, 3>>
    /\ county_features[2].geometry.type = "MultiPolygon"
    /\ Len(county_features[2].geometry.coordinates) = 2
    /\ county_features[2].id = Id(<<"2", "1", "1", "1", "3">>)

-----------------------------------------------------------------------------
(* The arc table under the decoder calls, checked under SpecDecode *)

-----------------------------------------------------------------------------
(* The reported statistics, checked under SpecReport *)

\* the county totals in ascending order
Totals == SortedTotals(density, DOMAIN density)

\* twice the median: the middle total counted twice for an odd number of
\* counties, the sum of the two middle totals for an even number
TwiceMedian(st) ==
    IF Len(st) % 2 = 1 THEN 2 * st[(Len(st) + 1) \div 2]
    ELSE st[Len(st) \div 2] + st[(Len(st) \div 2) + 1]

\* C25: for a non-empty histogram the reported statistics are the maximum
\* and the median of the county totals.
C25_MaxAndMedian ==
    pc = "done" =>
        /\ \A f \in DOMAIN density : density[f][1] <= stats[1]
        /\ \E f \in DOMAIN density : density[f][1] = stats[1]
        /\ 2 * stats[2] = TwiceMedian(Totals)

-----------------------------------------------------------------------------
(* The two lists of the build loop, checked under Spec *)

\* the features among the first fi whose geometry was built and found valid,
\* in the order of the build loop
BuiltFrom ==
    SelectSeq([k \in 1..fi |-> k],
              LAMBDA k : LET g == Shape(county_features[k].geometry)
                         IN  g.ok /\ IsValid(g))

\* position n of both lists comes from the same feature
AlignedAt(built, n) ==
    LET feat == county_features[built[n]]
        g == Shape(feat.geometry)
        text == Str(feat.id)
        fips == county_fips_list[n]
        pad == Len(fips) - Len(text)
    IN  /\ county_shapes[n] = [type |-> g.type, polys |-> g.polys]
        /\ pad = Max2(0, 5 - Len(text))
        /\ \A k \in 1..Len(fips) : fips[k] = IF k <= pad THEN "0" ELSE text[k - pad]

ListsAligned ==
    LET built == BuiltFrom
    IN  /\ Len(county_shapes) = Len(county_fips_list)
        /\ Len(county_shapes) = Len(built)
        /\ \A n \in 1..Len(county_shapes) : AlignedAt(built, n)

\* an assigned point is credited to the fips at the position of the geometry
\* that accepted it
CreditedToTested ==
    (i' = i + 1 /\ assigned' = assigned + 1) =>
        /\ Contains(county_shapes[idx'], PointAt(i'))
              \/ RLess(Distance2(county_shapes[idx'], PointAt(i')), Tol2)
        /\ OnlyRecordIncremented(county_fips_list[idx'])

\* C26: the list of indexed geometries and the list of fips have equal length
\* at every step, position by position they come from the same feature, also
\* after features were rejected, and a point is credited to the fips of the
\* geometry it was tested against.
C26_ListsAligned ==
    /\ []ListsAligned
    /\ [][CreditedToTested]_vars

\* two features were rejected between accepted ones, and a point was credited
\* to the second accepted geometry
C26_Witness ==
    /\ fi = 5
    /\ BuiltFrom = <<1, 2, 5>>
    /\ i >= 1 /\ idx = 2
    /\ county_fips_list[2] \in DOMAIN density

\* the fips whose total a step raised
CreditedFips == CHOOSE f \in DOMAIN density' : density'[f][1] = RecordOf(density, f)[1] + 1

\* what one pass of the assignment loop may do with a point
ResolvedSafely ==
    i' = i + 1 =>
        /\ (\E g \in 1..Len(county_shapes) : Contains(county_shapes[g], PointAt(i')))
              => unassigned' = unassigned
        /\ assigned' = assigned + 1 =>
              \E g \in 1..Len(county_shapes) :
                 /\ county_fips_list[g] = CreditedFips
                 /\ Len(county_shapes[g].polys) > 0
                 /\ Contains(county_shapes[g], PointAt(i'))
                       \/ RLess(Distance2(county_shapes[g], PointAt(i')), Tol2)

\* C27: a point contained in some indexed geometry is never counted as
\* unassigned, and an assigned point is contained in, or nearer than the
\* tolerance to, the geometry whose fips it is credited to.
C27_NoContainedUnassigned ==
    [][ResolvedSafely]_vars

\* a point inside a geometry and a point on a boundary only, both assigned
C27_Witness ==
    /\ i = 2 /\ assigned = 2 /\ unassigned = 0
    /\ \E g \in 1..Len(county_shapes) : Contains(county_shapes[g], PointAt(1))
    /\ \A g \in 1..Len(county_shapes) : ~Contains(county_shapes[g], PointAt(2))

-----------------------------------------------------------------------------
(* Properties of geocode_pharmacies.py, checked under SpecGeocode *)

\* what a step of the retry loop may do
RetryStep ==
    /\ posts' = posts + 1 => (pc = "post" /\ ~parsed /\ posts < 3)
    /\ (parsed' /\ ~parsed) => (posts' = posts + 1 /\ pc' = "store")
    /\ (pc = "post" /\ pc' = "store" /\ ~parsed') => (posts' = 3 /\ results' = <<>>)
    /\ (pc = "post" /\ pc' = "post") => (posts' = posts + 1 /\ posts' < 3 /\ ~parsed')

\* the run goes from a batch, failed or not, to the next batch or to the output
BatchFollows ==
    pc = "store" =>
        /\ i' = i + 1
        /\ pc' = IF i' < Len(batches) THEN "post" ELSE "output"
        /\ pc' = "post" => posts' = 0

\* C28: a batch gets at most 3 POST attempts, none after a successful one;
\* after the third failure the call returns an empty result and parses no
\* response; the run then goes on with the next batch.
C28_ThreeAttempts ==
    /\ [](posts <= 3)
    /\ [](pc = "post" => posts < 3 /\ ~parsed)
    /\ [](pc # "aborted" /\ exc = "")
    /\ [][RetryStep]_vars
    /\ [][BatchFollows]_vars

\* the first batch failed three times and stored nothing, the second batch
\* succeeded at its second attempt
C28_Witness ==
    /\ pc = "store" /\ i = 1
    /\ Len(batches) = 2
    /\ batches[1][1].npi = 11
    /\ all_results = <<>> /\ cache_file = <<>>
    /\ posts = 2 /\ parsed
    /\ DOMAIN results = {14}

RECURSIVE Concat(_)
Concat(seqs) == IF Len(seqs) = 0 THEN <<>> ELSE Head(seqs) \o Concat(Tail(seqs))

\* the positions of the rows whose npi is not a key of the loaded cache
Uncached ==
    SelectSeq([k \in 1..Len(pharmacies) |-> k],
              LAMBDA k : pharmacies[k].npi \notin DOMAIN all_results)

\* the step that splits the batches, all_results still being the loaded cache
BatchesPartitionUncached ==
    (pc = "resume" /\ pc' # "resume") =>
        /\ \A b \in 1..Len(batches') :
              /\ Len(batches'[b]) >= 1
              /\ Len(batches'[b]) <= BATCH_SIZE
              /\ \A k \in 1..Len(batches'[b]) :
                    batches'[b][k].npi \notin DOMAIN all_results
        /\ Len(Concat(batches')) = Len(Uncached)
        /\ \A n \in 1..Len(Uncached) : Concat(batches')[n] = pharmacies[Uncached[n]]

\* the batches are those of the split, the cache is written with every batch,
\* and no key leaves the results or the cache file
CacheGrows ==
    /\ pc # "resume" => (batches' = batches /\ pharmacies' = pharmacies)
    /\ i' = i + 1 => cache_file' = all_results'
    /\ DOMAIN all_results \subseteq DOMAIN all_results'
    /\ DOMAIN cache_file \subseteq DOMAIN cache_file'
    /\ \A n \in DOMAIN cache_file : cache_file[n] # "None" => cache_file'[n] # "None"

\* C29: rows whose npi is in the loaded cache are in no batch, the other rows
\* are split, each into one batch of at most BATCH_SIZE rows, the cache is
\* written after every batch, and its entries are never removed.
C29_Resumable ==
    /\ [][BatchesPartitionUncached]_vars
    /\ [][CacheGrows]_vars
    /\ [](pc \in {"post", "store"} => i < Len(batches))

\* one of three rows was cached, the other two made one batch, which failed:
\* the cache file still holds the loaded entries and nothing else
C29_Witness ==
    /\ pc = "output"
    /\ Len(pharmacies) = 3
    /\ \E k \in 1..3 : pharmacies[k].npi = 13
    /\ Len(batches) = 1 /\ Len(batches[1]) = 2
    /\ batches[1][1].npi = 11
    /\ i = 1 /\ ~parsed /\ posts = 3
    /\ DOMAIN cache_file = {13, 17}

\* the rows among the first pj that have coordinates: a geocode result that
\* is not null, or a centroid for the first 5 characters of the zip
Emitted ==
    SelectSeq([k \in 1..pj |-> k],
              LAMBDA k : \/ (pharmacies[k].npi \in DOMAIN all_results
                               /\ all_results[pharmacies[k].npi] # "None")
                         \/ Zip5(pharmacies[k].zip) \in DOMAIN zip_centroids)

\* the coordinates a row is to get
CoordsFor(pharm) ==
    IF pharm.npi \in DOMAIN all_results /\ all_results[pharm.npi] # "None"
    THEN all_results[pharm.npi]
    ELSE zip_centroids[Zip5(pharm.zip)]

\* entry n of points and of details comes from the n-th row with coordinates
OutputAt(n) ==
    LET pharm == pharmacies[Emitted[n]]
    IN  /\ points[n][1] = Round5(CoordsFor(pharm)[1])
        /\ points[n][2] = Round5(CoordsFor(pharm)[2])
        /\ points[n][3] \in 0..3
        /\ pharm.estimated_status.has /\ pharm.estimated_status.text = "Active"
              => points[n][3] = 0
        /\ pharm.estimated_status.has /\ pharm.estimated_status.text = "Likely Closed"
              => points[n][3] = 3
        /\ details[n].n = pharm.display_name

OutputConsistent ==
    pc \in {"output", "written"} =>
        /\ Len(points) + skip_count = pj
        /\ Len(points) = Len(details)
        /\ Len(points) = Len(Emitted)
        /\ pc = "written" => pj = Len(pharmacies)
        /\ \A n \in 1..Len(points) : OutputAt(n)

\* a pass of the output loop emits the row or skips it, never both
RowHandledOnce ==
    pj' # pj =>
        /\ pj' = pj + 1
        /\ \/ (Len(points') = Len(points) + 1 /\ skip_count' = skip_count)
           \/ (points' = points /\ details' = details /\ skip_count' = skip_count + 1)

\* C30: every row is handled once: it gets its geocode result, else the
\* centroid of its ZIP, else it is skipped; len(points) + skip_count is the
\* number of rows, points and details are aligned, status codes are 0..3.
C30_OutputComplete ==
    /\ []OutputConsistent
    /\ [][RowHandledOnce]_vars

\* of three rows one was geocoded, one fell back to its centroid, one was skipped
C30_Witness ==
    /\ pc = "written"
    /\ Len(pharmacies) = 3
    /\ Len(points) = 2 /\ fallback_count = 1 /\ skip_count = 1
    /\ \E n \in 1..2 : points[n][3] = 3

=============================================================================
